---------------------------- MODULE Spec2Model ----------------------------
(***************************************************************************)
(* Model of the OKLCH gradient engine (gradientEngine.js) and of the vibe  *)
(* companion engine (utils/vibeHarmony.js).                                 *)
(*                                                                         *)
(* Numbers are fixed point.  Lightness and chroma are                      *)
(* integers in millionths (0.25 is 250000), a Math.random() draw is an     *)
(* integer in thousandths; hues and hue deltas are                         *)
(* integers in thousandths of a degree (180 degrees is 180000).  A factor  *)
(* such as 1.15 or t = 0.25 is a fraction n/d applied by MulDiv, which is  *)
(* exact whenever the real product lies on the unit grid and rounds toward *)
(* minus infinity by less than one unit otherwise.                          *)
(***************************************************************************)
EXTENDS Integers, Sequences, FiniteSets, TLC

\* op: the operation called last; args: its arguments; ret: what it returned.
\* The engines keep no state between calls.
VARIABLES op, args, ret

vars == <<op, args, ret>>

---------------------------------------------------------------------------
(* Bounds of the model. *)

\* longest colour array handed to optimizeForGradient
MaxColors == 3
\* largest stop count asked of generateVibeGradient
MaxStops == 5
\* largest number of companions generateVibeCompanions is asked to generate
\* (count, less one when the input is included)
MaxCompanions == 3
\* largest number of inner steps asked of interpolateOKLCH
MaxSteps == 4
\* longest list of used hues handed to avoidClumping
MaxUsed == 3

---------------------------------------------------------------------------
(* Number representation. *)

\* one, as a lightness / chroma / random value
Unit == 10^6
\* one degree, as a hue
Deg == 10^3
\* a field that is absent from a colour object (JavaScript undefined)
Undefined == 0 - 10^9
\* JavaScript NaN: the result of 0/0 in the chromatic-arc generator and of
\* arithmetic on a missing field
NaN == 0 - 10^9 - 1

\* x * (n/d) for n >= 0, d > 0, computed without leaving 32 bits
MulDiv(x, n, d) == (x \div d) * n + ((x % d) * n) \div d

\* x * n / 10^6 for 0 <= n < 2 * 10^6, computed without leaving 32 bits
MulUnit(x, n) ==
  LET r == x % Unit
  IN (x \div Unit) * n + (r * (n \div 1000) + (r * (n % 1000)) \div 1000) \div 1000

Abs(x) == IF x < 0 THEN 0 - x ELSE x
Min(a, b) == IF a < b THEN a ELSE b
Max(a, b) == IF a > b THEN a ELSE b

\* JavaScript a % b: the remainder takes the sign of the dividend
JsRem(a, b) == IF a >= 0 THEN a % b ELSE 0 - ((0 - a) % b)

\* the ?? operator at a read site
Default(x, d) == IF x = Undefined THEN d ELSE x

\* arithmetic on a missing field or on NaN gives NaN
IsNumber(x) == x # Undefined /\ x # NaN

---------------------------------------------------------------------------
(* gradientEngine.js, section 6: helpers. *)

normalizeHue(hue) == JsRem(JsRem(hue, 360 * Deg) + 360 * Deg, 360 * Deg)

clamp(value, min, max) == Max(min, Min(max, value))

\* t is the fraction tn/td
lerp(a, b, tn, td) == a + MulDiv(b - a, tn, td)

\* getHueDistance reporting the shortest arc on every path
getHueDistanceMutShortOnly(h1, h2, path) ==
  LET n1 == normalizeHue(h1)
      n2 == normalizeHue(h2)
      d0 == Abs(n2 - n1)
  IN IF d0 > 180 * Deg THEN 360 * Deg - d0 ELSE d0

getHueDistance(h1, h2, path) ==
  LET n1 == normalizeHue(h1)
      n2 == normalizeHue(h2)
      d0 == Abs(n2 - n1)
      diff == IF d0 > 180 * Deg THEN 360 * Deg - d0 ELSE d0
  IN IF path = "long" THEN 360 * Deg - diff ELSE diff

\* gradientEngine.js's biasTowardRange: strength is the fraction sn/sd
biasTowardRange(hue, rangeMin, rangeMax, sn, sd) ==
  LET normalized == normalizeHue(hue)
      rangeMid == (rangeMin + rangeMax) \div 2
      d0 == rangeMid - normalized
      d1 == IF d0 > 180 * Deg THEN d0 - 360 * Deg ELSE d0
      diff == IF d1 < 0 - 180 * Deg THEN d1 + 360 * Deg ELSE d1
  IN normalizeHue(normalized + MulDiv(diff, sn, sd))

---------------------------------------------------------------------------
(* gradientEngine.js, section 1: hue interpolation. *)

\* goLongWay turning by half a circle instead of a whole one
goLongWayMutHalfTurn(diff) ==
  LET d1 == IF diff > 0 /\ diff < 180 * Deg THEN diff - 180 * Deg ELSE diff
  IN IF d1 < 0 /\ d1 > 0 - 180 * Deg THEN d1 + 180 * Deg ELSE d1

\* goLongWay without its second statement: a short negative diff is kept
goLongWayMutNoWrapUp(diff) ==
  IF diff > 0 /\ diff < 180 * Deg THEN diff - 360 * Deg ELSE diff

\* the two statements "if (diff > 0 && diff < 180) diff -= 360;
\* if (diff < 0 && diff > -180) diff += 360;" run in sequence
goLongWay(diff) ==
  LET d1 == IF diff > 0 /\ diff < 180 * Deg THEN diff - 360 * Deg ELSE diff
  IN IF d1 < 0 /\ d1 > 0 - 180 * Deg THEN d1 + 360 * Deg ELSE d1

\* goShortWay without its second statement
goShortWayMutNoWrapUp(diff) ==
  IF diff > 180 * Deg THEN diff - 360 * Deg ELSE diff

\* the two statements of case 'short', run in sequence
goShortWay(diff) ==
  LET d1 == IF diff > 180 * Deg THEN diff - 360 * Deg ELSE diff
  IN IF d1 < 0 - 180 * Deg THEN d1 + 360 * Deg ELSE d1

\* the constant shortDiff of cases 'warm' and 'cool' (a conditional expression)
shortDiffOf(diff) ==
  IF diff > 180 * Deg THEN diff - 360 * Deg
  ELSE IF diff < 0 - 180 * Deg THEN diff + 360 * Deg ELSE diff

\* the short-arc midpoint of cases 'warm' and 'cool'; h1 is normalized
midpointOf(h1, diff) == normalizeHue(h1 + shortDiffOf(diff) \div 2)

\* the value of diff after the switch; h1 and h2 are the caller's hues
hueDelta(h1, h2, path) ==
  LET n1 == normalizeHue(h1)
      n2 == normalizeHue(h2)
      diff == n2 - n1
      midpoint == midpointOf(n1, diff)
  IN CASE path = "short" -> goShortWay(diff)
       [] path = "long" -> goLongWay(diff)
       [] path = "warm" ->
            IF midpoint > 170 * Deg /\ midpoint < 280 * Deg
            THEN goLongWay(diff) ELSE diff
       [] path = "cool" ->
            IF midpoint > 330 * Deg \/ midpoint < 60 * Deg
            THEN goLongWay(diff) ELSE diff
       [] OTHER -> diff

\* t is the fraction tn/td
interpolateHue(h1, h2, tn, td, path) ==
  normalizeHue(normalizeHue(h1) + MulDiv(hueDelta(h1, h2, path), tn, td))

---------------------------------------------------------------------------
(* vibeHarmony.js, section 1: mood analysis. *)

energyOfMutThreshold(c) ==
  IF c < 40000 THEN "whisper"
  ELSE IF c < 80000 THEN "muted"
  ELSE IF c < 130000 THEN "moderate"
  ELSE IF c < 300000 THEN "vibrant"
  ELSE "electric"

energyOf(c) ==
  IF c < 40000 THEN "whisper"
  ELSE IF c < 80000 THEN "muted"
  ELSE IF c < 130000 THEN "moderate"
  ELSE IF c < 200000 THEN "vibrant"
  ELSE "electric"

\* depthOf with inclusive comparisons: a lightness on a threshold stays in
\* the lower bucket
depthOfMutInclusive(l) ==
  IF l <= 250000 THEN "abyss"
  ELSE IF l <= 400000 THEN "deep"
  ELSE IF l <= 550000 THEN "grounded"
  ELSE IF l <= 700000 THEN "airy"
  ELSE IF l <= 850000 THEN "soft"
  ELSE "ethereal"

depthOf(l) ==
  IF l < 250000 THEN "abyss"
  ELSE IF l < 400000 THEN "deep"
  ELSE IF l < 550000 THEN "grounded"
  ELSE IF l < 700000 THEN "airy"
  ELSE IF l < 850000 THEN "soft"
  ELSE "ethereal"

\* temperatureOf calling a chroma of exactly 0.15 hot or icy
temperatureOfMutInclusive(c, h) ==
  LET warmHues == (h >= 0 /\ h < 70 * Deg) \/ h >= 330 * Deg
      coolHues == h >= 170 * Deg /\ h < 280 * Deg
  IN IF c < 40000 THEN "neutral"
     ELSE IF warmHues THEN (IF c >= 150000 THEN "hot" ELSE "warm")
     ELSE IF coolHues THEN (IF c >= 150000 THEN "icy" ELSE "cool")
     ELSE IF h >= 70 * Deg /\ h < 170 * Deg THEN "fresh" ELSE "complex"

temperatureOf(c, h) ==
  LET warmHues == (h >= 0 /\ h < 70 * Deg) \/ h >= 330 * Deg
      coolHues == h >= 170 * Deg /\ h < 280 * Deg
  IN IF c < 40000 THEN "neutral"
     ELSE IF warmHues THEN (IF c > 150000 THEN "hot" ELSE "warm")
     ELSE IF coolHues THEN (IF c > 150000 THEN "icy" ELSE "cool")
     ELSE IF h >= 70 * Deg /\ h < 170 * Deg THEN "fresh" ELSE "complex"

\* noir tested before moody, ethereal before dreamy and pop
classifyMoodMutOrder(energy, depth, temperature, hue) ==
  IF (depth = "abyss" \/ depth = "deep") /\ (energy = "whisper" \/ energy = "muted")
    THEN "noir"
  ELSE IF depth = "ethereal" \/ (depth = "soft" /\ energy = "whisper")
    THEN "ethereal"
  ELSE IF (energy = "muted" \/ energy = "whisper") /\ (depth = "deep" \/ depth = "grounded")
    THEN "moody"
  ELSE IF (energy = "muted" \/ energy = "whisper") /\ (depth = "airy" \/ depth = "soft")
    THEN "dreamy"
  ELSE IF (energy = "vibrant" \/ energy = "electric") /\ (depth = "deep" \/ depth = "abyss")
    THEN "jewel"
  ELSE IF (energy = "vibrant" \/ energy = "electric")
          /\ (depth = "airy" \/ depth = "soft" \/ depth = "ethereal")
    THEN "pop"
  ELSE IF energy = "moderate" /\ (temperature = "warm" \/ temperature = "hot")
    THEN "earthy"
  ELSE IF energy = "moderate" /\ (temperature = "cool" \/ temperature = "icy")
    THEN "serene"
  ELSE IF temperature = "fresh" /\ energy # "whisper"
    THEN "botanical"
  ELSE "balanced"

classifyMood(energy, depth, temperature, hue) ==
  IF (energy = "muted" \/ energy = "whisper") /\ (depth = "deep" \/ depth = "grounded")
    THEN "moody"
  ELSE IF (energy = "muted" \/ energy = "whisper") /\ (depth = "airy" \/ depth = "soft")
    THEN "dreamy"
  ELSE IF (energy = "vibrant" \/ energy = "electric") /\ (depth = "deep" \/ depth = "abyss")
    THEN "jewel"
  ELSE IF (energy = "vibrant" \/ energy = "electric")
          /\ (depth = "airy" \/ depth = "soft" \/ depth = "ethereal")
    THEN "pop"
  ELSE IF energy = "moderate" /\ (temperature = "warm" \/ temperature = "hot")
    THEN "earthy"
  ELSE IF energy = "moderate" /\ (temperature = "cool" \/ temperature = "icy")
    THEN "serene"
  ELSE IF depth = "ethereal" \/ (depth = "soft" /\ energy = "whisper")
    THEN "ethereal"
  ELSE IF (depth = "abyss" \/ depth = "deep") /\ (energy = "whisper" \/ energy = "muted")
    THEN "noir"
  ELSE IF temperature = "fresh" /\ energy # "whisper"
    THEN "botanical"
  ELSE "balanced"

(* vibeHarmony.js, section 2: the strategy table.  chromaRange and         *)
(* lightnessRange are the pairs cMin, cMax and lMin, lMax; neutralChance   *)
(* is in hundredths.  The description strings are left out.                *)
Strategy(cMin, cMax, lMin, lMax, spread, bias, chance) ==
  [cMin |-> cMin, cMax |-> cMax, lMin |-> lMin, lMax |-> lMax,
   hueSpread |-> spread, temperatureBias |-> bias, neutralChance |-> chance]

determineCompanionStrategy(mood, l, c, h) ==
  CASE mood = "moody" ->
         Strategy(Max(20000, MulDiv(c, 4, 10)), MulDiv(c, 13, 10),
                  l - 150000, l + 150000, "wide", "preserve", 30)
    [] mood = "dreamy" ->
         Strategy(MulDiv(c, 3, 10), MulDiv(c, 12, 10),
                  l - 100000, Min(900000, l + 150000), "gentle", "soften", 20)
    [] mood = "jewel" ->
         Strategy(MulDiv(c, 6, 10), MulDiv(c, 11, 10),
                  l - 100000, l + 200000, "wide", "contrast", 15)
    [] mood = "pop" ->
         Strategy(MulDiv(c, 5, 10), MulDiv(c, 12, 10),
                  l - 200000, l + 150000, "wide", "complement", 10)
    [] mood = "earthy" ->
         Strategy(MulDiv(c, 4, 10), MulDiv(c, 115, 100),
                  l - 200000, l + 200000, "organic", "warm", 35)
    [] mood = "serene" ->
         Strategy(MulDiv(c, 5, 10), MulDiv(c, 11, 10),
                  l - 100000, l + 200000, "gentle", "cool", 25)
    [] mood = "ethereal" ->
         Strategy(10000, Max(60000, MulDiv(c, 12, 10)),
                  700000, 950000, "gentle", "soften", 40)
    [] mood = "noir" ->
         Strategy(10000, Max(60000, MulDiv(c, 15, 10)),
                  100000, 400000, "minimal", "preserve", 50)
    [] mood = "botanical" ->
         Strategy(MulDiv(c, 4, 10), MulDiv(c, 12, 10),
                  l - 150000, l + 200000, "organic", "fresh", 25)
    [] OTHER ->
         Strategy(MulDiv(c, 5, 10), MulDiv(c, 12, 10),
                  l - 150000, l + 150000, "moderate", "preserve", 20)

\* a colour object; mode is not modelled apart from the claims that name it
Color(l, c, h) == [l |-> l, c |-> c, h |-> h]

analyzeColorMood(color) ==
  LET l == Default(color.l, 500000)
      c == Default(color.c, 100000)
      h == Default(color.h, 0)
      energy == energyOf(c)
      depth == depthOf(l)
      temperature == temperatureOf(c, h)
      mood == classifyMood(energy, depth, temperature, h)
  IN [energy |-> energy, depth |-> depth, temperature |-> temperature,
      mood |-> mood, strategy |-> determineCompanionStrategy(mood, l, c, h),
      raw |-> Color(l, c, h)]

---------------------------------------------------------------------------
(* gradientEngine.js, section 2: gradient optimization. *)

\* intermediateStops without the sort by position: the stops stay in the
\* order they were pushed (midpoint, quarter, three-quarter)
intermediateStopsMutNoSort(a, b, huePath, boostChroma) ==
  LET hueDist == getHueDistance(Default(a.h, 0), Default(b.h, 0), huePath)
      chromaA == Default(a.c, 0)
      chromaB == Default(b.c, 0)
      factorN == IF boostChroma THEN 11 ELSE 10
      bothL == IsNumber(a.l) /\ IsNumber(b.l)
      mid == Color(IF bothL THEN (a.l + b.l) \div 2 ELSE NaN,
                   clamp(MulDiv(Max(chromaA, chromaB), 115, 100), 0, 350000),
                   interpolateHue(Default(a.h, 0), Default(b.h, 0), 1, 2, huePath))
      quarter == Color(IF bothL THEN lerp(a.l, b.l, 1, 4) ELSE NaN,
                       MulDiv(lerp(chromaA, chromaB, 1, 4), factorN, 10),
                       interpolateHue(Default(a.h, 0), Default(b.h, 0), 1, 4, huePath))
      threeQuarter == Color(IF bothL THEN lerp(a.l, b.l, 3, 4) ELSE NaN,
                            MulDiv(lerp(chromaA, chromaB, 3, 4), factorN, 10),
                            interpolateHue(Default(a.h, 0), Default(b.h, 0), 3, 4, huePath))
      hasMid == boostChroma /\ chromaA > 30000 /\ chromaB > 30000
      hasQuarters == hueDist > 90 * Deg
  IN (IF hasMid THEN <<mid>> ELSE <<>>)
     \o (IF hasQuarters THEN <<quarter, threeQuarter>> ELSE <<>>)

\* intermediateStops pushing the boosted midpoint twice
intermediateStopsMutDoubleMid(a, b, huePath, boostChroma) ==
  LET hueDist == getHueDistance(Default(a.h, 0), Default(b.h, 0), huePath)
      chromaA == Default(a.c, 0)
      chromaB == Default(b.c, 0)
      factorN == IF boostChroma THEN 11 ELSE 10
      bothL == IsNumber(a.l) /\ IsNumber(b.l)
      mid == Color(IF bothL THEN (a.l + b.l) \div 2 ELSE NaN,
                   clamp(MulDiv(Max(chromaA, chromaB), 115, 100), 0, 350000),
                   interpolateHue(Default(a.h, 0), Default(b.h, 0), 1, 2, huePath))
      quarter == Color(IF bothL THEN lerp(a.l, b.l, 1, 4) ELSE NaN,
                       MulDiv(lerp(chromaA, chromaB, 1, 4), factorN, 10),
                       interpolateHue(Default(a.h, 0), Default(b.h, 0), 1, 4, huePath))
      threeQuarter == Color(IF bothL THEN lerp(a.l, b.l, 3, 4) ELSE NaN,
                            MulDiv(lerp(chromaA, chromaB, 3, 4), factorN, 10),
                            interpolateHue(Default(a.h, 0), Default(b.h, 0), 3, 4, huePath))
      hasMid == boostChroma /\ chromaA > 30000 /\ chromaB > 30000
      hasQuarters == hueDist > 90 * Deg
  IN (IF hasQuarters THEN <<quarter>> ELSE <<>>)
     \o (IF hasMid THEN <<mid, mid>> ELSE <<>>)
     \o (IF hasQuarters THEN <<threeQuarter>> ELSE <<>>)

\* the stops collected between a and b, after the sort by position
\* (0.25, 0.5, 0.75): the quarter stop, the boosted midpoint, the
\* three-quarter stop, each only when its condition holds
intermediateStops(a, b, huePath, boostChroma) ==
  LET hueDist == getHueDistance(Default(a.h, 0), Default(b.h, 0), huePath)
      chromaA == Default(a.c, 0)
      chromaB == Default(b.c, 0)
      factorN == IF boostChroma THEN 11 ELSE 10
      bothL == IsNumber(a.l) /\ IsNumber(b.l)
      mid == Color(IF bothL THEN (a.l + b.l) \div 2 ELSE NaN,
                   clamp(MulDiv(Max(chromaA, chromaB), 115, 100), 0, 350000),
                   interpolateHue(Default(a.h, 0), Default(b.h, 0), 1, 2, huePath))
      quarter == Color(IF bothL THEN lerp(a.l, b.l, 1, 4) ELSE NaN,
                       MulDiv(lerp(chromaA, chromaB, 1, 4), factorN, 10),
                       interpolateHue(Default(a.h, 0), Default(b.h, 0), 1, 4, huePath))
      threeQuarter == Color(IF bothL THEN lerp(a.l, b.l, 3, 4) ELSE NaN,
                            MulDiv(lerp(chromaA, chromaB, 3, 4), factorN, 10),
                            interpolateHue(Default(a.h, 0), Default(b.h, 0), 3, 4, huePath))
      hasMid == boostChroma /\ chromaA > 30000 /\ chromaB > 30000
      hasQuarters == hueDist > 90 * Deg
  IN (IF hasQuarters THEN <<quarter>> ELSE <<>>)
     \o (IF hasMid THEN <<mid>> ELSE <<>>)
     \o (IF hasQuarters THEN <<threeQuarter>> ELSE <<>>)

\* the body of the loop for pairs i .. Len(colors)-1 (1-based), in order
RECURSIVE expandFrom(_, _, _, _, _)
expandFrom(colors, i, huePath, boostChroma, insertMidpoints) ==
  IF i >= Len(colors) THEN <<>>
  ELSE <<colors[i]>>
       \o (IF insertMidpoints
           THEN intermediateStops(colors[i], colors[i + 1], huePath, boostChroma)
           ELSE <<>>)
       \o expandFrom(colors, i + 1, huePath, boostChroma, insertMidpoints)

\* optimizeForGradient without the final push of the last colour
optimizeForGradientMutDropLast(colors, huePath, boostChroma, insertMidpoints) ==
  IF Len(colors) < 2 THEN colors
  ELSE expandFrom(colors, 1, huePath, boostChroma, insertMidpoints)

\* optimizeForGradient without its early return for fewer than two colours:
\* the final push appends colors[colors.length - 1], undefined for []
optimizeForGradientMutNoGuard(colors, huePath, boostChroma, insertMidpoints) ==
  expandFrom(colors, 1, huePath, boostChroma, insertMidpoints)
  \o (IF Len(colors) = 0 THEN <<Undefined>> ELSE <<colors[Len(colors)]>>)

optimizeForGradient(colors, huePath, boostChroma, insertMidpoints) ==
  IF Len(colors) < 2 THEN colors
  ELSE expandFrom(colors, 1, huePath, boostChroma, insertMidpoints)
       \o <<colors[Len(colors)]>>

---------------------------------------------------------------------------
(* gradientEngine.js, section 3: vibe gradient generation. *)

mapMoodToGradientStyle(mood) ==
  CASE mood.mood = "moody" -> "atmospheric"
    [] mood.mood = "dreamy" -> "dreamy"
    [] mood.mood = "jewel" -> "jewel"
    [] mood.mood = "pop" -> "pop"
    [] mood.mood = "earthy" -> "earthy"
    [] mood.mood = "serene" -> "atmospheric"
    [] mood.mood = "ethereal" -> "dreamy"
    [] mood.mood = "noir" -> "noir"
    [] mood.mood = "botanical" -> "botanical"
    [] mood.mood = "balanced" -> "chromatic-arc"
    [] OTHER -> "chromatic-arc"

determineHuePath(baseColor, style) ==
  LET h == Default(baseColor.h, 0)
  IN CASE style \in {"earthy", "botanical"} -> "warm"
       [] style \in {"dreamy", "serene"} -> "cool"
       [] style = "chromatic-arc" -> (IF h > 180 * Deg THEN "warm" ELSE "cool")
       [] OTHER -> "short"

\* Math.sin(k * Math.PI / d) in millionths, for d in 1..6 and k in 0..d
SinPi(k, d) ==
  LET table == << <<0, 0>>,
                  <<0, 1000000, 0>>,
                  <<0, 866025, 866025, 0>>,
                  <<0, 707107, 1000000, 707107, 0>>,
                  <<0, 587785, 951057, 951057, 587785, 0>>,
                  <<0, 500000, 866025, 1000000, 866025, 500000, 0>> >>
  IN table[d][k + 1]

atmospheric(baseColor, l, c, h) ==
  << baseColor,
     Color(MulDiv(l, 85, 100), MulDiv(c, 4, 10), normalizeHue(h + 20 * Deg)),
     Color(Max(150000, l - 250000), MulDiv(c, 6, 10), normalizeHue(h + 160 * Deg)) >>

jewel(baseColor, l, c, h) ==
  << [baseColor EXCEPT !.l = Min(450000, l), !.c = Max(150000, c)],
     Color(Min(400000, l - 50000), Min(280000, MulDiv(c, 13, 10)),
           normalizeHue(h + 35 * Deg)),
     Color(Min(420000, l), Max(140000, MulDiv(c, 9, 10)),
           normalizeHue(h + 180 * Deg)) >>

earthy(baseColor, l, c, h) ==
  LET warmBase == normalizeHue(IF h > 270 * Deg \/ h < 90 * Deg THEN h ELSE h + 30 * Deg)
  IN << Color(l, Min(c, 150000), warmBase),
        Color(l + 50000, MulDiv(c, 85, 100), normalizeHue(warmBase + 15 * Deg)),
        Color(l - 100000, Max(20000, MulDiv(c, 25, 100)),
              normalizeHue(warmBase - 10 * Deg)) >>

dreamy(baseColor, l, c, h) ==
  LET dreamShift == IF h < 200 * Deg THEN 60 * Deg ELSE 0 - 40 * Deg
  IN << Color(Max(500000, l - 100000), MulDiv(c, 7, 10), h),
        Color(Min(850000, l + 150000), MulDiv(c, 5, 10), normalizeHue(h + dreamShift)),
        Color(920000, 20000, normalizeHue(h + MulDiv(dreamShift, 12, 10))) >>

pop(baseColor, l, c, h) ==
  << [baseColor EXCEPT !.c = Max(180000, c)],
     Color(l + 50000, Max(160000, MulDiv(c, 95, 100)), normalizeHue(h + 180 * Deg)),
     Color(l - 50000, Max(150000, MulDiv(c, 9, 10)), normalizeHue(h + 220 * Deg)) >>

noir(baseColor, l, c, h) ==
  << Color(Min(350000, l), Min(60000, MulDiv(c, 4, 10)), h),
     Color(120000, 15000, h),
     Color(180000, Min(50000, MulDiv(c, 3, 10)), normalizeHue(h + 180 * Deg)) >>

botanical(baseColor, l, c, h) ==
  LET greenBias == biasTowardRange(h, 80 * Deg, 160 * Deg, 4, 10)
  IN << Color(l, Min(c, 180000), greenBias),
        Color(Min(700000, l + 100000), MulDiv(c, 9, 10), normalizeHue(greenBias - 30 * Deg)),
        Color(Max(250000, l - 200000), MulDiv(c, 5, 10), normalizeHue(greenBias + 20 * Deg)) >>

\* chromaticArcStop with an arc of 120 degrees whatever the stop count
chromaticArcStopMutWideArc(l, c, h, i, stopCount) ==
  LET arcLength == 120 * Deg
      d == stopCount - 1
      hueOffset == MulDiv(arcLength, i, d) - arcLength \div 2
      lightWave == MulDiv(SinPi(i, d), 4, 100)
      boosted == c + MulDiv(c, 15 * Abs(2 * i - d), 200 * d)
  IN IF d = 0 THEN Color(NaN, NaN, NaN)
     ELSE Color(clamp(l + lightWave, 250000, 850000),
                clamp(boosted, 80000, 280000),
                normalizeHue(h + hueOffset))

\* stop i (0-based) of the chromatic arc; t = i / (stopCount - 1), which is
\* 0/0 = NaN when stopCount = 1 and then makes every field NaN
chromaticArcStop(l, c, h, i, stopCount) ==
  LET arcLength == IF stopCount >= 4 THEN 120 * Deg ELSE 90 * Deg
      d == stopCount - 1
      hueOffset == MulDiv(arcLength, i, d) - arcLength \div 2
      lightWave == MulDiv(SinPi(i, d), 4, 100)
      \* c * (1 + |t - 0.5| * 0.15), with |t - 0.5| = |2i - d| / (2d)
      boosted == c + MulDiv(c, 15 * Abs(2 * i - d), 200 * d)
  IN IF d = 0 THEN Color(NaN, NaN, NaN)
     ELSE Color(clamp(l + lightWave, 250000, 850000),
                clamp(boosted, 80000, 280000),
                normalizeHue(h + hueOffset))

chromaticArc(baseColor, l, c, h, stopCount) ==
  [i \in 1..stopCount |-> chromaticArcStop(l, c, h, i - 1, stopCount)]

generateKeyStops(baseColor, mood, style, stopCount) ==
  LET l == Default(baseColor.l, 500000)
      c == Default(baseColor.c, 100000)
      h == Default(baseColor.h, 0)
  IN CASE style = "atmospheric" -> atmospheric(baseColor, l, c, h)
       [] style = "jewel" -> jewel(baseColor, l, c, h)
       [] style = "earthy" -> earthy(baseColor, l, c, h)
       [] style = "dreamy" -> dreamy(baseColor, l, c, h)
       [] style = "pop" -> pop(baseColor, l, c, h)
       [] style = "noir" -> noir(baseColor, l, c, h)
       [] style = "botanical" -> botanical(baseColor, l, c, h)
       [] OTHER -> chromaticArc(baseColor, l, c, h, stopCount)

generateVibeGradient(baseColor, style, stops, huePath) ==
  LET mood == analyzeColorMood(baseColor)
      resolvedStyle == IF style = "auto" THEN mapMoodToGradientStyle(mood) ELSE style
      resolvedHuePath == IF huePath = "auto"
                         THEN determineHuePath(baseColor, resolvedStyle) ELSE huePath
      keyStops == generateKeyStops(baseColor, mood, resolvedStyle, stops)
      expandedStops == optimizeForGradient(
                         keyStops, resolvedHuePath,
                         resolvedStyle # "atmospheric" /\ resolvedStyle # "noir", TRUE)
  IN [stops |-> expandedStops, keyStops |-> keyStops, style |-> resolvedStyle,
      mood |-> mood.mood, energy |-> mood.energy, temperature |-> mood.temperature,
      huePath |-> resolvedHuePath]

---------------------------------------------------------------------------
(* gradientEngine.js, section 1: colour interpolation.  t = i / (steps + 1) *)
(* is the fraction tn/td.                                                   *)

\* the eased t, as a fraction <<numerator, denominator>>
applyEasing(tn, td, easing) ==
  CASE easing = "ease" ->
         IF 2 * tn < td THEN <<2 * tn * tn, td * td>>
         ELSE <<td * td - 2 * (td - tn) * (td - tn), td * td>>
    [] easing = "easeIn" -> <<tn * tn, td * td>>
    [] easing = "easeOut" -> <<td * td - (td - tn) * (td - tn), td * td>>
    [] OTHER -> <<tn, td>>

\* the boost range with its ends included
inBoostRangeMutInclusive(tn, td) == 5 * tn >= td /\ 5 * tn <= 4 * td

\* t > 0.2 && t < 0.8
inBoostRange(tn, td) == 5 * tn > td /\ 5 * tn < 4 * td

\* the body of the loop for i (0-based)
interpolatedStop(colorA, colorB, i, steps, huePath, lightnessEase, chromaBoost) ==
  LET td == steps + 1
      easedT == applyEasing(i, td, lightnessEase)
      l == lerp(Default(colorA.l, 500000), Default(colorB.l, 500000),
                easedT[1], easedT[2])
      h == interpolateHue(Default(colorA.h, 0), Default(colorB.h, 0), i, td, huePath)
      plain == lerp(Default(colorA.c, 100000), Default(colorB.c, 100000), i, td)
      \* 1 + 0.2 * Math.sin(t * Math.PI)
      boostFactor == Unit + SinPi(i, td) \div 5
      c == IF chromaBoost /\ inBoostRange(i, td)
           THEN MulUnit(plain, boostFactor) ELSE plain
  IN Color(clamp(l, 0, Unit), clamp(c, 0, 400000), h)

\* the loop stopping one short: for (i = 0; i <= steps; i++)
interpolateOKLCHMutNoEnd(colorA, colorB, steps, huePath, lightnessEase, chromaBoost) ==
  [k \in 1..(steps + 1) |->
     interpolatedStop(colorA, colorB, k - 1, steps, huePath, lightnessEase, chromaBoost)]

interpolateOKLCH(colorA, colorB, steps, huePath, lightnessEase, chromaBoost) ==
  [k \in 1..(steps + 2) |->
     interpolatedStop(colorA, colorB, k - 1, steps, huePath, lightnessEase, chromaBoost)]

---------------------------------------------------------------------------
(* vibeHarmony.js, section 6: helpers. *)

\* vibeHarmony.js's biasTowardRange: the result is not normalized
vhBiasTowardRange(hue, rangeMin, rangeMax, sn, sd) ==
  LET normalized == normalizeHue(hue)
      rangeMid == (rangeMin + rangeMax) \div 2
      d0 == rangeMid - normalized
      d1 == IF d0 > 180 * Deg THEN d0 - 360 * Deg ELSE d0
      diff == IF d1 < 0 - 180 * Deg THEN d1 + 360 * Deg ELSE d1
  IN normalized + MulDiv(diff, sn, sd)

tooClose(adjusted, used, minSeparation) ==
  \E k \in 1..Len(used) :
    LET diff == Abs(normalizeHue(adjusted - used[k]))
    IN Min(diff, 360 * Deg - diff) < minSeparation

\* the loop nudging by +minSeparation on every attempt
RECURSIVE nudgeMutOneWay(_, _, _, _)
nudgeMutOneWay(adjusted, used, minSeparation, attempts) ==
  IF attempts >= 10 \/ ~tooClose(adjusted, used, minSeparation) THEN adjusted
  ELSE nudgeMutOneWay(normalizeHue(adjusted + minSeparation),
                      used, minSeparation, attempts + 1)

RECURSIVE nudge(_, _, _, _)
nudge(adjusted, used, minSeparation, attempts) ==
  IF attempts >= 10 \/ ~tooClose(adjusted, used, minSeparation) THEN adjusted
  ELSE nudge(normalizeHue(adjusted + minSeparation * (IF attempts % 2 = 0 THEN 1 ELSE 0 - 1)),
             used, minSeparation, attempts + 1)

avoidClumping(hue, used, minSeparation) ==
  IF Len(used) = 0 THEN hue ELSE nudge(hue, used, minSeparation, 0)

\* the value of the counter attempts when the while loop is left
RECURSIVE nudgeAttempts(_, _, _, _)
nudgeAttempts(adjusted, used, minSeparation, attempts) ==
  IF attempts >= 10 \/ ~tooClose(adjusted, used, minSeparation) THEN attempts
  ELSE nudgeAttempts(
         normalizeHue(adjusted + minSeparation * (IF attempts % 2 = 0 THEN 1 ELSE 0 - 1)),
         used, minSeparation, attempts + 1)

(* vibeHarmony.js, section 5: roles. *)
describeCompanionRole(input, companion) ==
  LET hueDiff == Abs(normalizeHue(companion.h - Default(input.h, 0)))
  IN IF hueDiff < 30 * Deg THEN "neighbor"
     ELSE IF hueDiff < 60 * Deg THEN "analogous"
     ELSE IF hueDiff < 120 * Deg THEN "contrast"
     ELSE IF hueDiff < 160 * Deg THEN "triadic"
     ELSE "complement"

---------------------------------------------------------------------------
(* vibeHarmony.js, section 3: companion generation.  A Math.random() draw  *)
(* r is an integer in thousandths, 0 <= r < 1000.                          *)

spreadOffsets(hueSpread) ==
  CASE hueSpread = "minimal" -> <<10, 0 - 15, 20, 0 - 25, 30>>
    [] hueSpread = "gentle" -> <<25, 0 - 30, 50, 0 - 55, 75>>
    [] hueSpread = "wide" -> <<60, 150, 0 - 80, 200, 0 - 120>>
    [] hueSpread = "organic" -> <<30, 0 - 25, 55, 0 - 50, 80>>
    [] OTHER -> <<40, 0 - 45, 80, 160, 0 - 90>>

spreadJitter(hueSpread) ==
  CASE hueSpread = "minimal" -> 5
    [] hueSpread = "gentle" -> 10
    [] hueSpread = "wide" -> 20
    [] hueSpread = "organic" -> 12
    [] OTHER -> 15

\* index is 0-based; r is the draw for the jitter
pickVibeHue(baseHue, mood, index, total, used, r) ==
  LET strategy == mood.strategy
      offsets == spreadOffsets(strategy.hueSpread)
      baseOffset == offsets[(index % Len(offsets)) + 1] * Deg
      \* (r - 0.5) * jitter * 2 degrees
      jitter == (r - 500) * 2 * spreadJitter(strategy.hueSpread)
      t0 == baseHue + baseOffset + jitter
      bias == strategy.temperatureBias
      targetHue ==
        CASE bias = "warm" -> vhBiasTowardRange(t0, 0, 60 * Deg, 3, 10)
          [] bias = "cool" -> vhBiasTowardRange(t0, 190 * Deg, 260 * Deg, 3, 10)
          [] bias = "fresh" -> vhBiasTowardRange(t0, 100 * Deg, 170 * Deg, 25, 100)
          [] bias = "contrast" ->
               IF index % 2 = 0 THEN vhBiasTowardRange(t0, 0, 50 * Deg, 2, 10)
               ELSE vhBiasTowardRange(t0, 200 * Deg, 260 * Deg, 2, 10)
          [] bias = "soften" -> baseHue + MulDiv(t0 - baseHue, 7, 10)
          [] OTHER -> t0
  IN normalizeHue(avoidClumping(normalizeHue(targetHue), used, 25 * Deg))

\* draws = <<jitter, chroma variation, lightness jitter>>, in the order drawn
generateSingleCompanion(input, mood, index, totalChromatic, used, draws) ==
  LET strategy == mood.strategy
      targetHue == pickVibeHue(mood.raw.h, mood, index, totalChromatic, used, draws[1])
      \* chromaVariation = r * 0.6 + 0.4 = (6r + 4000) / 10000
      targetChroma ==
        clamp(strategy.cMin
                + MulDiv(strategy.cMax - strategy.cMin, 6 * draws[2] + 4000, 10000),
              10000, 300000)
      \* lightnessStep = (index + 1) / (totalChromatic + 1); (r - 0.5) * 0.06
      targetLightness ==
        clamp(strategy.lMin
                + MulDiv(strategy.lMax - strategy.lMin, index + 1, totalChromatic + 1)
                + (draws[3] - 500) * 60,
              80000, 950000)
  IN [color |-> Color(targetLightness, targetChroma, normalizeHue(targetHue)),
      role |-> describeCompanionRole(input, Color(targetLightness, targetChroma, targetHue))]

\* draws = <<chroma, lightness, hue shift>>, in the order drawn
generateGroundingNeutral(input, mood, index, draws) ==
  LET l == mood.raw.l
      h == mood.raw.h
      neutralChroma == 10000 + draws[1] * 25
      neutralLightness ==
        IF l > 600000 THEN 150000 + draws[2] * 200
        ELSE IF l < 400000 THEN 750000 + draws[2] * 150
        ELSE IF index % 2 = 0 THEN 850000 + draws[2] * 80
        ELSE 180000 + draws[2] * 120
      neutralHue == normalizeHue(h + (draws[3] - 500) * 20)
  IN [color |-> Color(neutralLightness, neutralChroma, neutralHue),
      role |-> IF neutralLightness > 600000 THEN "light-ground" ELSE "dark-ground"]

\* Array.prototype.sort with (a, b) => b.color.l - a.color.l: a stable sort,
\* lighter first.  insertDesc puts x after every element at least as light.
RECURSIVE insertDesc(_, _)
insertDesc(sorted, x) ==
  IF sorted = <<>> THEN <<x>>
  ELSE IF Default(Head(sorted).color.l, 0) >= Default(x.color.l, 0)
       THEN <<Head(sorted)>> \o insertDesc(Tail(sorted), x)
       ELSE <<x>> \o sorted

\* the sort left out: the companions stay in generation order
sortByLightnessMutNoSort(seq) == seq

RECURSIVE sortByLightness(_)
sortByLightness(seq) ==
  IF seq = <<>> THEN <<>>
  ELSE insertDesc(sortByLightness(SubSeq(seq, 1, Len(seq) - 1)), seq[Len(seq)])

\* Math.floor in place of Math.round
neutralSlotsOfMutFloor(targetCount, chance) == (targetCount * chance) \div 100

\* Math.round(targetCount * neutralChance), neutralChance in hundredths
neutralSlotsOf(targetCount, chance) == (2 * targetCount * chance + 100) \div 200

targetCountOf(count, includeInput) == IF includeInput THEN count - 1 ELSE count

\* the two generation loops, chromatic companions first and then the
\* neutrals, from iteration n on (1-based over both loops); acc holds the
\* companions pushed so far, used the hues tracked so far, and draws[k] the
\* draws of iteration k
RECURSIVE generateFrom(_, _, _, _, _, _, _, _)
generateFrom(input, mood, chromaSlots, total, n, acc, used, draws) ==
  IF n > total THEN acc
  ELSE IF n <= chromaSlots
  THEN LET companion == generateSingleCompanion(input, mood, n - 1, chromaSlots,
                                                used, draws[n])
       IN generateFrom(input, mood, chromaSlots, total, n + 1,
                       Append(acc, companion), Append(used, companion.color.h), draws)
  ELSE generateFrom(input, mood, chromaSlots, total, n + 1,
                    Append(acc, generateGroundingNeutral(input, mood,
                                                         n - 1 - chromaSlots, draws[n])),
                    used, draws)

\* generateVibeCompanions sorting after the input is put in front, so that
\* the source entry is sorted with the companions
generateVibeCompanionsMutSortAll(inputColor, count, includeInput, draws) ==
  LET mood == analyzeColorMood(inputColor)
      targetCount == targetCountOf(count, includeInput)
      neutralSlots == neutralSlotsOf(targetCount, mood.strategy.neutralChance)
      chromaSlots == targetCount - neutralSlots
      total == Max(chromaSlots, 0) + Max(neutralSlots, 0)
      companions == generateFrom(inputColor, mood, chromaSlots, total, 1, <<>>,
                                 <<Default(inputColor.h, 0)>>, draws)
      palette == IF includeInput
                 THEN sortByLightness(
                        <<[color |-> inputColor, role |-> "source"]>> \o companions)
                 ELSE sortByLightness(companions)
  IN [palette |-> palette, mood |-> mood.mood, energy |-> mood.energy,
      temperature |-> mood.temperature, depth |-> mood.depth]

\* the palette; tips and descriptions are strings that depend on the mood
\* alone and are left out
generateVibeCompanions(inputColor, count, includeInput, draws) ==
  LET mood == analyzeColorMood(inputColor)
      targetCount == targetCountOf(count, includeInput)
      neutralSlots == neutralSlotsOf(targetCount, mood.strategy.neutralChance)
      chromaSlots == targetCount - neutralSlots
      total == Max(chromaSlots, 0) + Max(neutralSlots, 0)
      companions == generateFrom(inputColor, mood, chromaSlots, total, 1, <<>>,
                                 <<Default(inputColor.h, 0)>>, draws)
      sorted == sortByLightness(companions)
      palette == IF includeInput
                 THEN <<[color |-> inputColor, role |-> "source"]>> \o sorted
                 ELSE sorted
  IN [palette |-> palette, mood |-> mood.mood, energy |-> mood.energy,
      temperature |-> mood.temperature, depth |-> mood.depth]

---------------------------------------------------------------------------
(* The inputs the operations are called with. *)

Paths == {"short", "long", "warm", "cool"}

Styles == {"atmospheric", "jewel", "earthy", "dreamy", "pop", "noir",
           "botanical", "chromatic-arc"}

\* hues every 10 degrees from -60 to 410: normalized ones and ones that
\* normalizeHue has to bring back
HueInputs == {k * 10 * Deg : k \in (0 - 6)..41}

\* t as a fraction
TInputs == {<<0, 1>>, <<1, 4>>, <<1, 2>>, <<3, 4>>, <<1, 1>>}

Energies == {"whisper", "muted", "moderate", "vibrant", "electric"}
Depths == {"abyss", "deep", "grounded", "airy", "soft", "ethereal"}
Temperatures == {"neutral", "warm", "hot", "cool", "icy", "fresh", "complex"}

\* colours on and around every threshold of the classifier
MoodColors ==
  {Color(l, c, h) :
     l \in {0, 100000, 240000, 250000, 300000, 400000, 500000, 550000,
            600000, 700000, 800000, 850000, 900000, 1000000},
     c \in {0, 30000, 40000, 50000, 80000, 100000, 130000, 150000, 160000,
            200000, 250000, 400000},
     h \in {0, 20 * Deg, 69 * Deg, 70 * Deg, 100 * Deg, 169 * Deg, 170 * Deg,
            200 * Deg, 279 * Deg, 280 * Deg, 300 * Deg, 329 * Deg, 330 * Deg,
            350 * Deg, 359 * Deg}}

\* whole turns added to a hue
Turns == {0 - 1, 1, 2}

\* colours whose hue arrives out of [0,360): one or two turns away from a
\* hue of each temperature band
TurnedColors ==
  {Color(l, c, h + k * 360 * Deg) :
     l \in {300000, 500000, 900000},
     c \in {30000, 100000, 200000},
     h \in {20 * Deg, 100 * Deg, 200 * Deg, 300 * Deg, 340 * Deg},
     k \in Turns}

\* colours with a missing field: l, c, h in turn, then all three
PartialColors ==
  {Color(Undefined, 200000, 200 * Deg), Color(700000, Undefined, 200 * Deg),
   Color(700000, 200000, Undefined), Color(Undefined, Undefined, Undefined)}

\* colours handed to interpolateOKLCH: two in canonical bounds, one above
\* and one below them, and the ones with a missing field
InterpColors ==
  {Color(300000, 150000, 30 * Deg), Color(800000, 300000, 200 * Deg),
   Color(1200000, 500000, 400 * Deg), Color(0 - 100000, 0 - 50000, 0 - 30 * Deg)}
  \cup PartialColors

Easings == {"linear", "ease", "easeIn", "easeOut"}

\* colours handed to optimizeForGradient
OptColors ==
  {Color(500000, 100000, 0), Color(700000, 200000, 60 * Deg),
   Color(300000, 150000, 150 * Deg), Color(600000, 30000, 200 * Deg),
   Color(400000, 20000, 90 * Deg), Color(800000, 300000, 350 * Deg),
   Color(500000, 100000, 180 * Deg), Color(200000, 400000, 270 * Deg)}

RECURSIVE SeqsUpTo(_, _)
SeqsUpTo(S, n) ==
  IF n = 0 THEN {<<>>}
  ELSE LET shorter == SeqsUpTo(S, n - 1)
       IN shorter \cup {Append(q, x) : q \in shorter, x \in S}

\* base colours in canonical bounds, the ends of every range included
BaseColors ==
  {Color(l, c, h) :
     l \in {0, 50000, 300000, 500000, 700000, 1000000},
     c \in {0, 20000, 50000, 100000, 200000, 400000},
     h \in {0, 45 * Deg, 90 * Deg, 150 * Deg, 200 * Deg, 270 * Deg, 300 * Deg}}

\* one input colour per mood, light, dark and mid ones among them
CompanionInputs ==
  {Color(300000, 50000, 20 * Deg),    \* moody
   Color(600000, 50000, 200 * Deg),   \* dreamy
   Color(300000, 250000, 280 * Deg),  \* jewel
   Color(900000, 250000, 280 * Deg),  \* pop
   Color(500000, 100000, 30 * Deg),   \* earthy
   Color(500000, 100000, 200 * Deg),  \* serene
   Color(900000, 30000, 100 * Deg),   \* ethereal
   Color(100000, 50000, 350 * Deg),   \* noir
   Color(500000, 100000, 120 * Deg),  \* botanical
   Color(500000, 150000, 300 * Deg)}  \* balanced

\* normalized hues handed to avoidClumping, every 5 degrees
ClumpHues == {k * 5 * Deg : k \in 0..71}

\* hues already used: an input hue left as given (370) among normalized ones
UsedHues == {0, 20 * Deg, 40 * Deg, 100 * Deg, 350 * Deg, 370 * Deg}

\* Math.random() draws, in thousandths: the least and (nearly) the greatest
Rand == {0, 999}

Draws(n) == [1..n -> Rand \X Rand \X Rand]

---------------------------------------------------------------------------
(* The state machine.  The operations are pure functions that share no     *)
(* state, so a behaviour is one call: from the initial state, one          *)
(* operation is called with some arguments and returns.                    *)

Init ==
  /\ op = "init"
  /\ args = <<>>
  /\ ret = <<>>

\* ret.delta is the local variable diff at the return statement
InterpolateHue ==
  /\ op = "init"
  /\ \E h1 \in HueInputs, h2 \in HueInputs, t \in TInputs, path \in Paths :
    /\ op' = "interpolateHue"
    /\ args' = [h1 |-> h1, h2 |-> h2, tn |-> t[1], td |-> t[2], path |-> path]
    /\ ret' = [hue |-> interpolateHue(h1, h2, t[1], t[2], path),
               delta |-> hueDelta(h1, h2, path)]

AnalyzeColorMood ==
  /\ op = "init"
  /\ \E color \in MoodColors \cup TurnedColors \cup PartialColors :
    /\ op' = "analyzeColorMood"
    /\ args' = color
    /\ ret' = analyzeColorMood(color)

ClassifyMood ==
  /\ op = "init"
  /\ \E energy \in Energies, depth \in Depths, temperature \in Temperatures :
    /\ op' = "classifyMood"
    /\ args' = [energy |-> energy, depth |-> depth, temperature |-> temperature]
    /\ ret' = classifyMood(energy, depth, temperature, 0)

InterpolateOKLCH ==
  /\ op = "init"
  /\ \E colorA \in InterpColors, colorB \in InterpColors, steps \in 0..MaxSteps,
     huePath \in Paths, lightnessEase \in Easings, chromaBoost \in BOOLEAN :
    /\ op' = "interpolateOKLCH"
    /\ args' = [colorA |-> colorA, colorB |-> colorB, steps |-> steps,
                huePath |-> huePath, lightnessEase |-> lightnessEase,
                chromaBoost |-> chromaBoost]
    /\ ret' = interpolateOKLCH(colorA, colorB, steps, huePath, lightnessEase,
                               chromaBoost)

OptimizeForGradient ==
  /\ op = "init"
  /\ \E colors \in SeqsUpTo(OptColors \cup PartialColors, MaxColors), huePath \in Paths,
     boostChroma \in BOOLEAN, insertMidpoints \in BOOLEAN :
    /\ op' = "optimizeForGradient"
    /\ args' = [colors |-> colors, huePath |-> huePath,
                boostChroma |-> boostChroma, insertMidpoints |-> insertMidpoints]
    /\ ret' = optimizeForGradient(colors, huePath, boostChroma, insertMidpoints)

GenerateVibeGradient ==
  /\ op = "init"
  /\ \E baseColor \in BaseColors \cup PartialColors, style \in Styles \cup {"auto"},
     stops \in 0..MaxStops, huePath \in Paths \cup {"auto"} :
    /\ op' = "generateVibeGradient"
    /\ args' = [baseColor |-> baseColor, style |-> style, stops |-> stops,
                huePath |-> huePath]
    /\ ret' = generateVibeGradient(baseColor, style, stops, huePath)

GenerateVibeCompanions ==
  /\ op = "init"
  /\ \E inputColor \in CompanionInputs, includeInput \in BOOLEAN,
     target \in 0..MaxCompanions :
    LET count == IF includeInput THEN target + 1 ELSE target
    IN \E draws \in Draws(target) :
         /\ op' = "generateVibeCompanions"
         /\ args' = [inputColor |-> inputColor, count |-> count,
                     includeInput |-> includeInput, draws |-> draws]
         /\ ret' = generateVibeCompanions(inputColor, count, includeInput, draws)

\* ret.nudges is the local variable attempts at the return statement
AvoidClumping ==
  /\ op = "init"
  /\ \E hue \in ClumpHues, used \in SeqsUpTo(UsedHues, MaxUsed) :
    /\ op' = "avoidClumping"
    /\ args' = [hue |-> hue, used |-> used, minSeparation |-> 25 * Deg]
    /\ ret' = [hue |-> avoidClumping(hue, used, 25 * Deg),
               nudges |-> IF Len(used) = 0 THEN 0
                          ELSE nudgeAttempts(hue, used, 25 * Deg, 0)]

HueNext == InterpolateHue
InterpolateNext == InterpolateOKLCH
MoodNext == AnalyzeColorMood \/ ClassifyMood
OptimizeNext == OptimizeForGradient
GradientNext == GenerateVibeGradient
CompanionsNext == GenerateVibeCompanions
ClumpingNext == AvoidClumping

Next == HueNext \/ InterpolateNext \/ MoodNext \/ OptimizeNext \/ GradientNext \/ CompanionsNext
        \/ ClumpingNext

Spec == Init /\ [][Next]_vars
SpecHue == Init /\ [][HueNext]_vars
SpecInterpolate == Init /\ [][InterpolateNext]_vars
SpecMood == Init /\ [][MoodNext]_vars
SpecOptimize == Init /\ [][OptimizeNext]_vars
SpecGradient == Init /\ [][GradientNext]_vars
SpecCompanions == Init /\ [][CompanionsNext]_vars
SpecClumping == Init /\ [][ClumpingNext]_vars

---------------------------------------------------------------------------
(* Properties. *)

IsGradient == op = "generateVibeGradient"
IsHue == op = "interpolateHue"
IsInterpolate == op = "interpolateOKLCH"
IsAnalysis == op = "analyzeColorMood"
IsOptimize == op = "optimizeForGradient"
IsCompanions == op = "generateVibeCompanions"
IsClumping == op = "avoidClumping"

InCanonicalBounds(color) ==
  /\ color.l >= 0 /\ color.l <= Unit
  /\ color.c >= 0 /\ color.c <= 400000
  /\ color.h >= 0 /\ color.h < 360 * Deg

\* C1: for a base colour in canonical bounds, each of the 8 styles, each hue
\* path and a stop count of 2 to 5, every colour of the gradient's keyStops
\* and of its expanded stops has l in [0,1], c in [0,0.4] and h in [0,360).
C1_GeneratedColorsInBounds ==
  (IsGradient /\ InCanonicalBounds(args.baseColor)
     /\ args.stops >= 2 /\ args.stops <= 5 /\ ret.style \in Styles)
  => /\ \A k \in 1..Len(ret.keyStops) : InCanonicalBounds(ret.keyStops[k])
     /\ \A k \in 1..Len(ret.stops) : InCanonicalBounds(ret.stops[k])

\* C2 as stated: analyzeColorMood of {l: 0.9, c: 0.25, h: 280} has energy
\* 'vibrant', depth 'ethereal' and mood 'pop'.
C2_PopExampleVibrant ==
  (IsAnalysis /\ args = Color(900000, 250000, 280 * Deg))
  => /\ ret.energy = "vibrant"
     /\ ret.depth = "ethereal"
     /\ ret.mood = "pop"

\* C2 as amended: analyzeColorMood of {l: 0.9, c: 0.25, h: 280} has energy
\* 'electric' (chroma 0.25 is not below 0.20), depth 'ethereal' and mood 'pop'.
C2_PopExampleElectric ==
  (IsAnalysis /\ args = Color(900000, 250000, 280 * Deg))
  => /\ ret.energy = "electric"
     /\ ret.depth = "ethereal"
     /\ ret.mood = "pop"

C2_Witness ==
  /\ IsAnalysis
  /\ args = Color(900000, 250000, 280 * Deg)
  /\ ret.mood = "pop"

\* C3: for all hues h1, h2 and each of the four paths, interpolateHue at
\* t = 0 is normalizeHue(h1) and at t = 1 is normalizeHue(h2).
C3_Endpoints ==
  IsHue =>
    /\ args.tn = 0 => ret.hue = normalizeHue(args.h1)
    /\ args.tn = args.td => ret.hue = normalizeHue(args.h2)

\* t = 1 on the warm path from -30 to 400 degrees, where the hues are not
\* normalized and the long way is taken
C3_Witness ==
  /\ IsHue
  /\ args.path = "warm" /\ args.tn = 1 /\ args.td = 1
  /\ args.h1 = 0 - 30 * Deg /\ args.h2 = 400 * Deg
  /\ Abs(ret.delta) > 180 * Deg
  /\ ret.hue = 40 * Deg

\* C4: for normalized h1, h2, path 'warm' uses the long-arc delta when the
\* short-arc midpoint is strictly inside (170,280) and the short-arc delta
\* (magnitude at most 180) otherwise; path 'cool' uses the long-arc delta
\* when the short-arc midpoint is > 330 or < 60 and the short-arc delta
\* otherwise; raw differences beyond 180 in magnitude included.  (Equal
\* hues have no long arc and are let through.)
C4_MidpointDecidesArc ==
  (IsHue /\ args.path \in {"warm", "cool"}
     /\ args.h1 = normalizeHue(args.h1) /\ args.h2 = normalizeHue(args.h2))
  => LET raw == args.h2 - args.h1
         short == IF raw > 180 * Deg THEN raw - 360 * Deg
                  ELSE IF raw < 0 - 180 * Deg THEN raw + 360 * Deg ELSE raw
         mid == normalizeHue(args.h1 + short \div 2)
         flip == IF args.path = "warm" THEN mid > 170 * Deg /\ mid < 280 * Deg
                 ELSE mid > 330 * Deg \/ mid < 60 * Deg
     IN IF flip THEN Abs(ret.delta) >= 180 * Deg \/ raw = 0
        ELSE ret.delta = short /\ Abs(ret.delta) <= 180 * Deg

\* C5 as stated: on path 'short' the signed delta interpolateHue applies
\* lies in the half-open interval (-180, 180].
C5_ShortDeltaHalfOpen ==
  (IsHue /\ args.path = "short")
  => ret.delta > 0 - 180 * Deg /\ ret.delta <= 180 * Deg

\* C5 as amended: on path 'short' the signed delta interpolateHue applies
\* lies in the closed interval [-180, 180]; -180 is reached when h2 is
\* exactly 180 degrees below h1.
C5_ShortDeltaClosed ==
  (IsHue /\ args.path = "short")
  => ret.delta >= 0 - 180 * Deg /\ ret.delta <= 180 * Deg

\* h2 exactly 180 degrees below h1: the delta stays -180
C5_Witness ==
  /\ IsHue
  /\ args.path = "short"
  /\ normalizeHue(args.h2) - normalizeHue(args.h1) = 0 - 180 * Deg
  /\ ret.delta = 0 - 180 * Deg

\* the unsigned shortest-arc distance between two hues
ArcDistance(h1, h2) ==
  LET d == Abs(normalizeHue(h2) - normalizeHue(h1))
  IN IF d > 180 * Deg THEN 360 * Deg - d ELSE d

C7_StopsAtLeastKeyStops ==
  IsGradient => Len(ret.stops) >= Len(ret.keyStops)

\* an automatic gradient whose three key stops are expanded with inserted stops
C7_Witness ==
  /\ IsGradient
  /\ args.style = "auto" /\ args.huePath = "auto"
  /\ Len(ret.keyStops) = 3
  /\ Len(ret.stops) > 3
  /\ Len(ret.stops) < 9

\* C8: for every input colour, every count >= 1 and every outcome of the
\* random draws, generateVibeCompanions with includeInput = true returns a
\* palette of exactly count entries whose entry 0 has role 'source' and the
\* input's l, c and h.
C8_PaletteSizeAndSource ==
  (IsCompanions /\ args.includeInput /\ args.count >= 1)
  => /\ Len(ret.palette) = args.count
     /\ ret.palette[1].role = "source"
     /\ ret.palette[1].color.l = args.inputColor.l
     /\ ret.palette[1].color.c = args.inputColor.c
     /\ ret.palette[1].color.h = args.inputColor.h

\* a palette of four: the source, then chromatic and neutral companions
C8_Witness ==
  /\ IsCompanions
  /\ args.includeInput /\ args.count = 4
  /\ Len(ret.palette) = 4
  /\ \E k \in 2..4 : ret.palette[k].role \in {"light-ground", "dark-ground"}
  /\ \E k \in 2..4 : ret.palette[k].role \notin {"light-ground", "dark-ground"}

\* C9: in every palette, the generated companions (the entries after the
\* source when the input is included, all entries otherwise) are in
\* non-increasing order of lightness, and the source stays first whatever
\* its own lightness.
C9_CompanionsSortedSourceFirst ==
  IsCompanions =>
    LET palette == ret.palette
        first == IF args.includeInput THEN 2 ELSE 1
    IN /\ \A k \in first..(Len(palette) - 1) :
            palette[k].color.l >= palette[k + 1].color.l
       /\ args.includeInput => palette[1].role = "source"
       /\ \A k \in first..Len(palette) : palette[k].role # "source"

\* the source is darker than the companion after it, which is strictly
\* lighter than the next
C9_Witness ==
  /\ IsCompanions
  /\ args.includeInput
  /\ Len(ret.palette) >= 3
  /\ ret.palette[1].color.l < ret.palette[2].color.l
  /\ ret.palette[2].color.l > ret.palette[3].color.l

\* the cascade as the specification lists it: the rules in order, each a
\* condition and the mood it gives
C10_Rules(e, d, t) ==
  << <<e \in {"muted", "whisper"} /\ d \in {"deep", "grounded"}, "moody">>,
     <<e \in {"muted", "whisper"} /\ d \in {"airy", "soft"}, "dreamy">>,
     <<e \in {"vibrant", "electric"} /\ d \in {"deep", "abyss"}, "jewel">>,
     <<e \in {"vibrant", "electric"} /\ d \in {"airy", "soft", "ethereal"}, "pop">>,
     <<e = "moderate" /\ t \in {"warm", "hot"}, "earthy">>,
     <<e = "moderate" /\ t \in {"cool", "icy"}, "serene">>,
     <<d = "ethereal" \/ (d = "soft" /\ e = "whisper"), "ethereal">>,
     <<d \in {"abyss", "deep"} /\ e \in {"whisper", "muted"}, "noir">>,
     <<t = "fresh" /\ e # "whisper", "botanical">>,
     <<TRUE, "balanced">> >>

C10_FirstMatch(e, d, t) ==
  LET rules == C10_Rules(e, d, t)
      first == CHOOSE i \in 1..Len(rules) :
                 rules[i][1] /\ \A j \in 1..(i - 1) : ~rules[j][1]
  IN rules[first][2]

\* C10: for every (energy, depth, temperature) the mood is that of the first
\* matching rule of the cascade moody, dreamy, jewel, pop, earthy, serene,
\* ethereal, noir, botanical, else balanced; and analyzeColorMood of
\* {l: 0.3, c: 0.05, h: 20} has energy 'muted', depth 'deep', mood 'moody'.
C10_FirstMatchingRule ==
  /\ op = "classifyMood" =>
       ret = C10_FirstMatch(args.energy, args.depth, args.temperature)
  /\ IsAnalysis => ret.mood = C10_FirstMatch(ret.energy, ret.depth, ret.temperature)
  /\ (IsAnalysis /\ args = Color(300000, 50000, 20 * Deg)) =>
       /\ ret.energy = "muted"
       /\ ret.depth = "deep"
       /\ ret.mood = "moody"

\* the example: rule 1 (moody) and rule 8 (noir) both match, rule 1 wins
C10_Witness ==
  /\ IsAnalysis
  /\ args = Color(300000, 50000, 20 * Deg)
  /\ C10_Rules(ret.energy, ret.depth, ret.temperature)[1][1]
  /\ C10_Rules(ret.energy, ret.depth, ret.temperature)[8][1]
  /\ ret.mood = "moody"

\* the bucket of x: names[1] below the first threshold, names[k + 1] from
\* the k-th threshold on, the threshold itself included
C11_Bucket(x, thresholds, names) ==
  names[1 + Cardinality({k \in 1..Len(thresholds) : x >= thresholds[k]})]

\* C11: analyzeColorMood's energy is whisper, muted, moderate, vibrant or
\* electric by the chroma thresholds 0.04, 0.08, 0.13, 0.20, and its depth is
\* abyss, deep, grounded, airy, soft or ethereal by the lightness thresholds
\* 0.25, 0.40, 0.55, 0.70, 0.85; a value exactly on a threshold falls in the
\* higher bucket.
C11_EnergyAndDepthBuckets ==
  IsAnalysis =>
    /\ ret.energy = C11_Bucket(ret.raw.c, <<40000, 80000, 130000, 200000>>,
                               <<"whisper", "muted", "moderate", "vibrant", "electric">>)
    /\ ret.depth = C11_Bucket(ret.raw.l, <<250000, 400000, 550000, 700000, 850000>>,
                              <<"abyss", "deep", "grounded", "airy", "soft", "ethereal">>)

\* chroma exactly 0.08 and lightness exactly 0.55: the higher buckets
C11_Witness ==
  /\ IsAnalysis
  /\ args.c = 80000 /\ args.l = 550000
  /\ ret.energy = "moderate"
  /\ ret.depth = "airy"

\* the band of a hue in [0,360) as the temperature table lists them
C12_Band(h) ==
  IF h < 70 * Deg THEN "warm-band"
  ELSE IF h < 170 * Deg THEN "fresh"
  ELSE IF h < 280 * Deg THEN "cool-band"
  ELSE IF h < 330 * Deg THEN "complex"
  ELSE "warm-band"

\* C12: for a hue in [0,360), analyzeColorMood's temperature is 'neutral'
\* when chroma < 0.04; otherwise 'hot' (chroma > 0.15) or 'warm' for a hue in
\* [0,70) or [330,360), 'icy' (chroma > 0.15) or 'cool' for a hue in
\* [170,280), 'fresh' for a hue in [70,170) and 'complex' for a hue in
\* [280,330).
C12_TemperatureBands ==
  (IsAnalysis /\ ret.raw.h >= 0 /\ ret.raw.h < 360 * Deg)
  => LET c == ret.raw.c
         band == C12_Band(ret.raw.h)
     IN ret.temperature =
          CASE c < 40000 -> "neutral"
            [] c >= 40000 /\ band = "warm-band" ->
                 (IF c > 150000 THEN "hot" ELSE "warm")
            [] c >= 40000 /\ band = "cool-band" ->
                 (IF c > 150000 THEN "icy" ELSE "cool")
            [] OTHER -> band

\* hue exactly 170 and chroma exactly 0.15: the cool band, not yet icy
C12_Witness ==
  /\ IsAnalysis
  /\ args.h = 170 * Deg /\ args.c = 150000
  /\ ret.temperature = "cool"

\* C13: for every colour and every integer k, analyzeColorMood of a colour
\* with hue h and of the same colour with hue h + 360k return the same
\* energy, depth, temperature and mood.
C13_HuePeriodic ==
  IsAnalysis =>
    \A k \in Turns :
      LET turned == analyzeColorMood(Color(ret.raw.l, ret.raw.c,
                                           ret.raw.h + k * 360 * Deg))
      IN /\ turned.energy = ret.energy
         /\ turned.depth = ret.depth
         /\ turned.temperature = ret.temperature
         /\ turned.mood = ret.mood

\* a colour with its missing fields set to the defaults l = 0.5, c = 0.1, h = 0
C14_Filled(color) ==
  Color(Default(color.l, 500000), Default(color.c, 100000), Default(color.h, 0))

C14_FilledAll(colors) == [k \in 1..Len(colors) |-> C14_Filled(colors[k])]

\* C14: each of analyzeColorMood, interpolateOKLCH, optimizeForGradient and
\* generateVibeGradient, called with a colour whose l, c or h is missing,
\* gives the same colours and descriptors as when called with that field set
\* to its default l = 0.5, c = 0.1, h = 0.  (An input colour handed back with
\* its field still missing is read with the default.)
C14_MissingFieldsDefault ==
  /\ IsAnalysis => ret = analyzeColorMood(C14_Filled(args))
  /\ IsInterpolate =>
       ret = interpolateOKLCH(C14_Filled(args.colorA), C14_Filled(args.colorB),
                              args.steps, args.huePath, args.lightnessEase,
                              args.chromaBoost)
  /\ IsOptimize =>
       C14_FilledAll(ret) = optimizeForGradient(C14_FilledAll(args.colors), args.huePath,
                                                args.boostChroma, args.insertMidpoints)
  /\ IsGradient =>
       LET filled == generateVibeGradient(C14_Filled(args.baseColor), args.style,
                                          args.stops, args.huePath)
       IN /\ C14_FilledAll(ret.stops) = filled.stops
          /\ C14_FilledAll(ret.keyStops) = filled.keyStops
          /\ ret.style = filled.style /\ ret.mood = filled.mood
          /\ ret.energy = filled.energy /\ ret.temperature = filled.temperature
          /\ ret.huePath = filled.huePath

\* an end colour as interpolateOKLCH returns it: the defaults for missing
\* fields, l and c clamped, h normalized
C15_Endpoint(color) ==
  Color(clamp(Default(color.l, 500000), 0, Unit),
        clamp(Default(color.c, 100000), 0, 400000),
        normalizeHue(Default(color.h, 0)))

\* C15: for every steps >= 0, every hue path, every lightness easing and
\* either chromaBoost setting, interpolateOKLCH returns exactly steps + 2
\* colours; the first has colorA's clamped l and c and normalized h, the last
\* has colorB's.
C15_CountAndEndpoints ==
  IsInterpolate =>
    /\ Len(ret) = args.steps + 2
    /\ ret[1] = C15_Endpoint(args.colorA)
    /\ ret[Len(ret)] = C15_Endpoint(args.colorB)

\* four inner steps on the long path with eased lightness and boosted
\* chroma, from a colour above the canonical bounds to one below them
C15_Witness ==
  /\ IsInterpolate
  /\ args.steps = 4 /\ args.huePath = "long" /\ args.lightnessEase = "ease"
  /\ args.chromaBoost
  /\ args.colorA = Color(1200000, 500000, 400 * Deg)
  /\ args.colorB = Color(0 - 100000, 0 - 50000, 0 - 30 * Deg)
  /\ Len(ret) = 6
  /\ ret[1] = Color(Unit, 400000, 40 * Deg)
  /\ ret[6] = Color(0, 0, 330 * Deg)

\* C16: every colour interpolateOKLCH returns has l in [0,1] and c in
\* [0,0.4], for every pair of input colours (ones outside canonical bounds
\* too), chromaBoost on or off; and the chroma multiplier is applied only to
\* stops whose t is strictly between 0.2 and 0.8, so a stop at exactly
\* t = 0.2 or t = 0.8 has the plain linearly interpolated chroma.
C16_ClampedAndBoostRange ==
  IsInterpolate =>
    \A k \in 1..Len(ret) :
      LET tn == k - 1
          td == args.steps + 1
          strictlyInside == 5 * tn > td /\ 5 * tn < 4 * td
          plain == lerp(Default(args.colorA.c, 100000),
                        Default(args.colorB.c, 100000), tn, td)
      IN /\ ret[k].l >= 0 /\ ret[k].l <= Unit
         /\ ret[k].c >= 0 /\ ret[k].c <= 400000
         /\ ~(args.chromaBoost /\ strictlyInside)
              => ret[k].c = clamp(plain, 0, 400000)

\* chromaBoost with four inner steps: the stops at t = 0.2 and t = 0.8 carry
\* the plain chroma 0.18 and 0.27, the stop at t = 0.4 a boosted one
C16_Witness ==
  /\ IsInterpolate
  /\ args.steps = 4 /\ args.chromaBoost
  /\ args.colorA = Color(300000, 150000, 30 * Deg)
  /\ args.colorB = Color(800000, 300000, 200 * Deg)
  /\ ret[2].c = 180000
  /\ ret[5].c = 270000
  /\ ret[3].c > 210000 /\ ret[3].c < 400000

\* C17: optimizeForGradient called with an empty sequence or a single colour
\* returns its input unchanged, for every option setting, and raises no
\* error.
C17_ShortInputUnchanged ==
  (IsOptimize /\ Len(args.colors) < 2) => ret = args.colors

\* the empty sequence, with every option on: nothing is pushed
C17_Witness ==
  /\ IsOptimize
  /\ args.colors = <<>>
  /\ args.boostChroma /\ args.insertMidpoints /\ args.huePath = "long"
  /\ ret = <<>>

\* C18: for style 'chromatic-arc' and every stop count n >= 2,
\* generateVibeGradient's keyStops has exactly n colours, stop i has hue
\* normalizeHue(h - span/2 + span*i/(n-1)) with span = 120 when n >= 4 and
\* 90 otherwise (so base hue 200 with n = 4 gives 140, 180, 220, 260), and
\* every key stop has l in [0.25,0.85] and c in [0.08,0.28].
C18_ChromaticArcKeyStops ==
  (IsGradient /\ ret.style = "chromatic-arc" /\ args.stops >= 2)
  => LET n == args.stops
         h == Default(args.baseColor.h, 0)
         span == IF n >= 4 THEN 120 * Deg ELSE 90 * Deg
     IN /\ Len(ret.keyStops) = n
        /\ \A i \in 0..(n - 1) :
             LET stop == ret.keyStops[i + 1]
             IN /\ stop.h = normalizeHue(h - span \div 2 + (span * i) \div (n - 1))
                /\ stop.l >= 250000 /\ stop.l <= 850000
                /\ stop.c >= 80000 /\ stop.c <= 280000
        /\ (h = 200 * Deg /\ n = 4) =>
             [k \in 1..4 |-> ret.keyStops[k].h]
               = <<140 * Deg, 180 * Deg, 220 * Deg, 260 * Deg>>

\* the example: base hue 200 and four stops
C18_Witness ==
  /\ IsGradient
  /\ args.style = "chromatic-arc" /\ args.stops = 4
  /\ args.baseColor.h = 200 * Deg
  /\ Len(ret.keyStops) = 4
  /\ ret.keyStops[1].h = 140 * Deg /\ ret.keyStops[4].h = 260 * Deg

\* C19: for path 'long' and normalized hues h1, h2 whose difference is
\* neither 0 nor 180 in magnitude, the signed delta interpolateHue applies
\* has magnitude strictly greater than 180 and equal to 360 minus the
\* short-arc distance; when the difference is exactly 0 or exactly 180 in
\* magnitude, the delta is the difference, left unchanged.
C19_LongArcDelta ==
  (IsHue /\ args.path = "long"
     /\ args.h1 = normalizeHue(args.h1) /\ args.h2 = normalizeHue(args.h2))
  => LET raw == args.h2 - args.h1
     IN IF Abs(raw) = 0 \/ Abs(raw) = 180 * Deg
        THEN ret.delta = raw
        ELSE /\ Abs(ret.delta) > 180 * Deg
             /\ Abs(ret.delta) = 360 * Deg - ArcDistance(args.h1, args.h2)

\* from 100 down to 40 degrees the long way: the delta -60 becomes +300
C19_Witness ==
  /\ IsHue
  /\ args.path = "long"
  /\ args.h1 = 100 * Deg /\ args.h2 = 40 * Deg
  /\ ret.delta = 300 * Deg

\* C20: when generateVibeGradient is called with style 'auto' and huePath
\* 'auto', the resolved huePath of the result is 'warm' for every base colour
\* whose mood is earthy or botanical and 'cool' for every base colour whose
\* mood is dreamy or serene.
C20_AutoHuePathByMood ==
  (IsGradient /\ args.style = "auto" /\ args.huePath = "auto")
  => /\ ret.mood \in {"earthy", "botanical"} => ret.huePath = "warm"
     /\ ret.mood \in {"dreamy", "serene"} => ret.huePath = "cool"

\* the chromatic companions of a palette: neither the source nor a neutral
C21_Chromatic(palette) ==
  {k \in 1..Len(palette) :
     palette[k].role \notin {"source", "light-ground", "dark-ground"}}

\* C21: in every palette generateVibeCompanions produces, for every outcome
\* of the random draws, the hue of each chromatic companion is at least 25
\* degrees (shortest angular distance) away from the input hue and from the
\* hue of every chromatic companion generated before it, that is, from every
\* other chromatic companion.
C21_CompanionsApart ==
  IsCompanions =>
    LET palette == ret.palette
        chromatic == C21_Chromatic(palette)
        inputHue == Default(args.inputColor.h, 0)
    IN /\ \A k \in chromatic :
            ArcDistance(palette[k].color.h, inputHue) >= 25 * Deg
       /\ \A j \in chromatic, k \in chromatic :
            j # k => ArcDistance(palette[j].color.h, palette[k].color.h) >= 25 * Deg

\* the role the table gives for a shortest-arc distance d
C22_RoleOf(d) ==
  IF d < 30 * Deg THEN "neighbor"
  ELSE IF d < 60 * Deg THEN "analogous"
  ELSE IF d < 120 * Deg THEN "contrast"
  ELSE IF d < 160 * Deg THEN "triadic"
  ELSE "complement"

\* C22: the role of every chromatic companion is determined by its
\* shortest-arc hue distance d to the input hue: 'neighbor' when d < 30,
\* 'analogous' when d < 60, 'contrast' when d < 120, 'triadic' when d < 160,
\* 'complement' otherwise; a companion less than 30 degrees below the input
\* hue is a 'neighbor' like one less than 30 degrees above it.
C22_RoleByArcDistance ==
  IsCompanions =>
    \A k \in C21_Chromatic(ret.palette) :
      ret.palette[k].role
        = C22_RoleOf(ArcDistance(ret.palette[k].color.h,
                                 Default(args.inputColor.h, 0)))

\* what optimizeForGradient returned has the shape that the rule
\* QuartersIf(ha, hb, path) for the quarter stops gives: every key colour
\* in its place, one boosted midpoint between two colours of chroma above
\* 0.03 when boostChroma is on, and the stops at t = 0.25 and t = 0.75 around
\* it exactly for the pairs the rule names
C23_Shape(QuartersIf(_, _, _)) ==
  LET colors == args.colors
      n == Len(colors)
      hueOf(i) == Default(colors[i].h, 0)
      chromaOf(i) == Default(colors[i].c, 0)
      quarters(i) == QuartersIf(hueOf(i), hueOf(i + 1), args.huePath)
      mid(i) == args.boostChroma /\ chromaOf(i) > 30000 /\ chromaOf(i + 1) > 30000
      inserted(i) == (IF mid(i) THEN 1 ELSE 0) + (IF quarters(i) THEN 2 ELSE 0)
      pos[i \in 1..n] == IF i = 1 THEN 1 ELSE pos[i - 1] + 1 + inserted(i - 1)
  IN /\ Len(ret) = pos[n]
     /\ \A i \in 1..n : ret[pos[i]] = colors[i]
     /\ \A i \in 1..(n - 1) :
          quarters(i) =>
            /\ ret[pos[i] + 1].h
                 = interpolateHue(hueOf(i), hueOf(i + 1), 1, 4, args.huePath)
            /\ ret[pos[i + 1] - 1].h
                 = interpolateHue(hueOf(i), hueOf(i + 1), 3, 4, args.huePath)

\* the arc along the path: the magnitude of the delta interpolateHue uses
C23_DeltaExceeds90(ha, hb, path) == Abs(hueDelta(ha, hb, path)) > 90 * Deg

\* the unsigned distance: the shortest arc, and its complement on path 'long'
C23_DistanceExceeds90(ha, hb, path) ==
  (IF path = "long" THEN 360 * Deg - ArcDistance(ha, hb) ELSE ArcDistance(ha, hb))
    > 90 * Deg

\* C23 as stated: for every adjacent pair (a, b) and every hue path,
\* optimizeForGradient (inserting midpoints) inserts the quarter and
\* three-quarter stops exactly when the magnitude of the signed delta
\* interpolateHue uses for that pair and path exceeds 90 degrees.
C23_QuartersByDelta ==
  (IsOptimize /\ args.insertMidpoints /\ Len(args.colors) >= 2)
  => C23_Shape(C23_DeltaExceeds90)

\* C23 as amended: the quarter and three-quarter stops are inserted exactly
\* when the unsigned hue distance exceeds 90 degrees, the distance being the
\* shortest arc on paths 'short', 'warm' and 'cool' and 360 minus the
\* shortest arc on path 'long', whatever delta interpolateHue uses.
C23_QuartersByDistance ==
  (IsOptimize /\ args.insertMidpoints /\ Len(args.colors) >= 2)
  => C23_Shape(C23_DistanceExceeds90)

\* hues 200 and 180 on path 'warm': interpolateHue goes the long way round
\* (340 degrees), the distance is 20 degrees and no quarter stop is inserted
C23_Witness ==
  /\ IsOptimize
  /\ args.insertMidpoints /\ args.huePath = "warm"
  /\ args.colors = <<Color(600000, 30000, 200 * Deg), Color(500000, 100000, 180 * Deg)>>
  /\ Abs(hueDelta(200 * Deg, 180 * Deg, "warm")) = 340 * Deg
  /\ ret = args.colors

\* the stops optimizeForGradient produces for the pair (colors[i],
\* colors[i + 1]) under the options of the call: a, the stops inserted
\* between them, and b
C24_PairStops(i) ==
  Len(optimizeForGradient(<<args.colors[i], args.colors[i + 1]>>, args.huePath,
                          args.boostChroma, args.insertMidpoints))

\* every pair produces between 2 and most stops, and the result is the pairs'
\* stops with each shared key colour counted once
C24_PairsWithin(most) ==
  LET n == Len(args.colors)
      total[i \in 1..n] == IF i = 1 THEN 1 ELSE total[i - 1] + C24_PairStops(i - 1) - 1
  IN /\ \A i \in 1..(n - 1) : C24_PairStops(i) >= 2 /\ C24_PairStops(i) <= most
     /\ Len(ret) = total[n]

\* C24 as stated: for every adjacent pair (a, b) of key colours and every
\* option setting, the stops optimizeForGradient produces for that pair,
\* counting a, the stops inserted between them and b, number between 2 and 4.
C24_TwoToFourPerPair ==
  (IsOptimize /\ Len(args.colors) >= 2) => C24_PairsWithin(4)

\* C24 as amended: the stops produced for a pair number between 2 and 5: a
\* and b, the boosted midpoint, and the quarter and three-quarter stops.
C24_TwoToFivePerPair ==
  (IsOptimize /\ Len(args.colors) >= 2) => C24_PairsWithin(5)

\* three key colours: five stops for the first pair, two for the second
C24_Witness ==
  /\ IsOptimize
  /\ Len(args.colors) = 3
  /\ C24_PairStops(1) = 5
  /\ C24_PairStops(2) = 2
  /\ Len(ret) = 6

\* the entries of a palette with a neutral role
C25_Neutral(palette) ==
  {k \in 1..Len(palette) : palette[k].role \in {"light-ground", "dark-ground"}}

\* C25: with target = count - (includeInput ? 1 : 0) >= 0,
\* generateVibeCompanions produces exactly round(target *
\* strategy.neutralChance) neutral companions (roles 'light-ground' or
\* 'dark-ground', rounding half up) and exactly target minus that many
\* chromatic companions (roles neighbor, analogous, contrast, triadic or
\* complement), for every input colour and every outcome of the draws.
\* n is round(x) when n - 0.5 <= x < n + 0.5; the chance is in hundredths.
C25_NeutralAndChromaticCounts ==
  (IsCompanions /\ args.count - (IF args.includeInput THEN 1 ELSE 0) >= 0)
  => LET target == args.count - (IF args.includeInput THEN 1 ELSE 0)
         chance == analyzeColorMood(args.inputColor).strategy.neutralChance
         neutrals == Cardinality(C25_Neutral(ret.palette))
         chromatic == C21_Chromatic(ret.palette)
     IN /\ 100 * neutrals - 50 <= target * chance
        /\ target * chance < 100 * neutrals + 50
        /\ Cardinality(chromatic) = target - neutrals
        /\ \A k \in chromatic :
             ret.palette[k].role
               \in {"neighbor", "analogous", "contrast", "triadic", "complement"}

\* a noir input and three companions: 3 * 0.5 = 1.5 rounds up to two
\* neutrals, which leaves one chromatic companion
C25_Witness ==
  /\ IsCompanions
  /\ ret.mood = "noir"
  /\ args.count = 3 /\ ~args.includeInput
  /\ Cardinality(C25_Neutral(ret.palette)) = 2
  /\ Cardinality(C21_Chromatic(ret.palette)) = 1

\* C26: for style 'earthy' and every base hue h in [0,360), the first key
\* stop's hue equals h when h is in [270,360) or [0,90), and equals
\* normalizeHue(h + 30) otherwise; the second and third key stops have hues
\* 15 degrees above and 10 degrees below that first hue.
C26_EarthyHues ==
  (IsGradient /\ ret.style = "earthy"
     /\ args.baseColor.h >= 0 /\ args.baseColor.h < 360 * Deg)
  => LET h == args.baseColor.h
         first == ret.keyStops[1].h
     IN /\ first = IF h >= 270 * Deg \/ h < 90 * Deg THEN h
                   ELSE normalizeHue(h + 30 * Deg)
        /\ ret.keyStops[2].h = normalizeHue(first + 15 * Deg)
        /\ ret.keyStops[3].h = normalizeHue(first - 10 * Deg)

\* C27: for style 'dreamy' and every base colour with l in [0,1], the
\* lightness of the three key stops is non-decreasing from the first stop
\* to the last.
C27_DreamyLightnessRises ==
  (IsGradient /\ ret.style = "dreamy"
     /\ args.baseColor.l >= 0 /\ args.baseColor.l <= Unit)
  => /\ Len(ret.keyStops) = 3
     /\ ret.keyStops[1].l <= ret.keyStops[2].l
     /\ ret.keyStops[2].l <= ret.keyStops[3].l

\* C28: for style 'noir' and every base colour with l in [0,1], every key
\* stop has lightness within [0.1, 0.4].
C28_NoirLightnessBand ==
  (IsGradient /\ ret.style = "noir"
     /\ args.baseColor.l >= 0 /\ args.baseColor.l <= Unit)
  => \A k \in 1..Len(ret.keyStops) :
       ret.keyStops[k].l >= 100000 /\ ret.keyStops[k].l <= 400000

\* x is within 25 degrees (shortest arc) of one of the used hues of the call
C29_Clashes(x) ==
  \E k \in 1..Len(args.used) : ArcDistance(x, args.used[k]) < 25 * Deg

C30_HalfwayAvoidsBand ==
  (IsHue /\ 2 * args.tn = args.td /\ args.h1 # args.h2
     /\ args.h1 = normalizeHue(args.h1) /\ args.h2 = normalizeHue(args.h2))
  => /\ args.path = "warm" => ~(ret.hue > 170 * Deg /\ ret.hue < 280 * Deg)
     /\ args.path = "cool" => ~(ret.hue > 330 * Deg \/ ret.hue < 60 * Deg)

====
